---- MODULE Spec2Model ----
(***************************************************************************)
(* A model of the AFDB pipeline: the sliding-window engine                 *)
(* (src/src/dataset.py create_windows), the rhythm label expander          *)
(* (src/src/data_loader.py _get_rhythm_labels), the record loader          *)
(* (load_record), the dataset builder (build_datasets) and the shape       *)
(* arithmetic of the network's forward pass (src/src/model.py).            *)
(*                                                                         *)
(* Arrays are sequences; Python's 0-based positions are kept in the        *)
(* operators' arguments and translated to 1-based sequence positions only  *)
(* where an element is read.  Strings that the code inspects character by  *)
(* character (the auxiliary notes, the record names) are sequences of      *)
(* one-character strings.                                                  *)
(***************************************************************************)
EXTENDS Integers, Sequences, FiniteSets, TLC

VARIABLES
    pc,            \* position of the running program / call
    window_size,   \* create_windows / build_datasets parameter
    stride,        \* create_windows / build_datasets parameter
    signal,        \* create_windows argument: 1-D signal
    labels,        \* create_windows argument: binary labels
    win_out,       \* create_windows result: [windows, window_labels]
    annotation,    \* _get_rhythm_labels argument: [sample, aux_note]
    sig_len,       \* _get_rhythm_labels argument: the signal length
    lab_out,       \* _get_rhythm_labels result: the dense label array
    binary_labels, \* process_records: the 0/1 encoding of the label array
    env,           \* load_record: what wfdb finds on disk for the record
    channels,      \* load_record argument
    data,          \* load_record outcome: [raised, data]
    x,             \* forward: the tensor being computed, [err, shape]
    x_in,          \* forward: the shape of the input batch
    training,      \* nn.Module.training of the model
    input_channels,\* KanResWideX(input_channels, ...)
    output_size,   \* KanResWideX(..., output_size)
    res_log,       \* forward: input and output of each residual block run so far
    files,         \* build_datasets: the files of data_path, stem -> extensions
    records,       \* build_datasets: the usable records
    train_records, \* build_datasets: the train split
    test_records,  \* build_datasets: the test split
    cur,           \* process_records: position in record_list (from 1)
    all_windows,   \* process_records: the per-record window arrays so far
    all_labels,    \* process_records: the per-record label arrays so far
    train_X,       \* build_datasets: the train windows
    train_y,       \* build_datasets: the train labels
    test_X,        \* build_datasets: the test windows
    test_y,        \* build_datasets: the test labels
    train_dataset, \* build_datasets: AFDataset(train_X, train_y)
    test_dataset,  \* build_datasets: AFDataset(test_X, test_y)
    stdout,        \* what the build has printed
    history,       \* the records processed so far and what wfdb found for each
    prev_split     \* the split of the previous run of the program, if any

winVars == <<window_size, stride, signal, labels, win_out>>
labVars == <<annotation, sig_len, lab_out, binary_labels>>
loadVars == <<env, channels, data>>
fwdVars == <<x, x_in, training, input_channels, output_size, res_log>>
splitVars == <<records, train_records, test_records>>
procVars == <<cur, all_windows, all_labels>>
outVars == <<train_X, train_y, test_X, test_y, train_dataset, test_dataset>>
buildVars == <<files, splitVars, procVars, outVars, stdout, history, prev_split>>
vars == <<pc, winVars, labVars, loadVars, fwdVars, buildVars>>

----------------------------------------------------------------------------
(* Bounds of the model *)

MaxSigLen == 4
MaxWindow == 3
MaxStride == 3
MaxLabLen == 3
MaxEvents == 3
MaxRecLen == 4
MaxBatch == 2
MaxSeqLen == 14
MaxChannels == 2
BuildWindow == 3
MaxGlobalRng == 3

----------------------------------------------------------------------------
(* Python and numpy primitives used by the code *)

Min(a, b) == IF a <= b THEN a ELSE b

\* range(start, stop, step) for step >= 1, as a sequence
RECURSIVE range(_, _, _)
range(start, stop, step) ==
    IF start < stop THEN <<start>> \o range(start + step, stop, step)
    ELSE <<>>

\* a[start:end] for 0 <= start: both ends are clamped to len(a)
Slice(a, start, end) ==
    LET lo == Min(start, Len(a))
        hi == Min(end, Len(a))
    IN  IF hi <= lo THEN <<>> ELSE [i \in 1..(hi - lo) |-> a[lo + i]]

RECURSIVE Sum(_)
Sum(a) == IF a = <<>> THEN 0 ELSE Head(a) + Sum(Tail(a))

\* the mutant: a strict majority
MeanAboveHalf(a) == Len(a) > 0 /\ 2 * Sum(a) > Len(a)

\* np.mean(a) >= 0.5 for an integer array a: the mean is Sum(a)/Len(a), and the
\* mean of an empty array is nan, which compares False with everything
MeanAtLeastHalf(a) == Len(a) > 0 /\ 2 * Sum(a) >= Len(a)

\* the mutant: range(0, len(signal) - window_size, stride)
WindowStartsShort(sig, W, S) == range(0, Len(sig) - W, S)

\* dataset.py:28  range(0, len(signal) - window_size + 1, stride)
WindowStarts(sig, W, S) == range(0, Len(sig) - W + 1, S)

\* dataset.py:32  1 if np.mean(labels[start:end]) >= 0.5 else 0
MajorityLabel(lbls, start, end) ==
    IF MeanAtLeastHalf(Slice(lbls, start, end)) THEN 1 ELSE 0

\* dataset.py:24-34
create_windows(sig, lbls, W, S) ==
    LET starts == WindowStarts(sig, W, S)
    IN  [windows       |-> [k \in 1..Len(starts) |->
                               Slice(sig, starts[k], starts[k] + W)],
         window_labels |-> [k \in 1..Len(starts) |->
                               MajorityLabel(lbls, starts[k], starts[k] + W)]]

----------------------------------------------------------------------------
(* The rhythm label expander, data_loader.py:54-76 *)

\* Python's None where a string is expected: no string of characters equals it
PyNone == <<"None">>

AFIB == <<"(", "A", "F", "I", "B">>
NSR  == <<"(", "N">>
AFL  == <<"(", "A", "F", "L">>
VT   == <<"(", "V", "T">>
BEAT == <<"N">>

\* bool(aux): None and '' are falsy
Truthy(aux) == aux # PyNone /\ aux # <<>>

\* aux.startswith(prefix) for a one-character prefix
StartsWith(aux, ch) == Len(aux) >= 1 /\ aux[1] = ch

\* zip(a, b): pairs up to the shorter argument
Zip(a, b) == [i \in 1..Min(Len(a), Len(b)) |-> <<a[i], b[i]>>]

\* the mutant: every event with a non-empty auxiliary string is a boundary
RhythmChangesAnyAux(ann) ==
    SelectSeq(Zip(ann.sample, ann.aux_note), LAMBDA p : Truthy(p[2]))

\* data_loader.py:59-61
RhythmChanges(ann) ==
    SelectSeq(Zip(ann.sample, ann.aux_note),
              LAMBDA p : Truthy(p[2]) /\ StartsWith(p[2], "("))

\* data_loader.py:64-68, 73  rhythm_map.get(aux, 'other')
RhythmName(aux) ==
    CASE aux = AFIB -> "atrial_fibrillation"
      [] aux = NSR  -> "normal"
      [] aux = AFL  -> "atrial_flutter"
      [] OTHER      -> "other"

\* the mutant: the last boundary's segment is closed at the last sample
NextSampleOneShort(rc, i, n) == IF i + 1 <= Len(rc) THEN rc[i + 1][1] ELSE n - 1

\* data_loader.py:72  (i is the 1-based position in rc)
NextSample(rc, i, n) == IF i + 1 <= Len(rc) THEN rc[i + 1][1] ELSE n

\* a[start:end] = v for 0 <= start
SliceAssign(a, start, end, v) ==
    [j \in 1..Len(a) |-> IF start <= j - 1 /\ j - 1 < end THEN v ELSE a[j]]

\* data_loader.py:71-74: the loop from its i-th iteration on
RECURSIVE ApplySegments(_, _, _, _)
ApplySegments(arr, rc, i, n) ==
    IF i > Len(rc) THEN arr
    ELSE ApplySegments(
             SliceAssign(arr, rc[i][1], NextSample(rc, i, n), RhythmName(rc[i][2])),
             rc, i + 1, n)

\* data_loader.py:54-76
get_rhythm_labels(ann, n) ==
    ApplySegments([j \in 1..n |-> "unknown"], RhythmChanges(ann), 1, n)

----------------------------------------------------------------------------
(* The record loader, data_loader.py:21-52.  What wfdb finds for a record   *)
(* is the record's environment e:                                           *)
(*   e.sig  "ok" | "raise"   wfdb.rdrecord returns or raises                *)
(*   e.ann  "ok" | "rdann_raises" | "expand_raises"                         *)
(*          wfdb.rdann returns and the expansion succeeds, rdann raises     *)
(*          (missing or unparsable .atr), or the expansion raises           *)
(*   e.sig_len, e.fs, e.n_sig, e.annotation   the record's content          *)

\* the value of sample i of channel ch of the named record
Sample(name, ch, i) == <<name, ch, i>>

\* data_loader.py:33-36  `if channels:` is false for None and for []; both are <<>>
SelectedChannels(e, chans) ==
    IF chans # <<>> THEN chans ELSE [c \in 1..e.n_sig |-> c - 1]

\* wfdb.rdrecord(record_path, channels=...): p_signal is sig_len x channels
rdrecord(e, name, chans) ==
    LET sel == SelectedChannels(e, chans)
    IN  [p_signal |-> [i \in 1..e.sig_len |->
                          [c \in 1..Len(sel) |-> Sample(name, sel[c], i - 1)]],
         fs       |-> e.fs,
         sig_len  |-> e.sig_len]

\* rhythm_labels is an array or None
NoLabels == [present |-> FALSE, arr |-> <<>>]
SomeLabels(arr) == [present |-> TRUE, arr |-> arr]

\* the mutant: no try/except around the annotation block
LoadAnnotationsNoCatch(e, n) ==
    IF e.ann = "ok"
    THEN [raised |-> FALSE,
          rhythm_labels |-> SomeLabels(get_rhythm_labels(e.annotation, n))]
    ELSE [raised |-> TRUE, rhythm_labels |-> NoLabels]

\* data_loader.py:39-43: the try block and its bare except
LoadAnnotations(e, n) ==
    IF e.ann = "ok"
    THEN [raised |-> FALSE,
          rhythm_labels |-> SomeLabels(get_rhythm_labels(e.annotation, n))]
    ELSE [raised |-> FALSE, rhythm_labels |-> NoLabels]

NoData ==
    [record_name |-> <<>>, signal |-> <<>>, fs |-> 0, sig_len |-> 0,
     duration |-> <<0, 1>>, rhythm_labels |-> NoLabels]

\* data_loader.py:21-52; duration = sig_len / fs is kept as the pair <<sig_len, fs>>
load_record(e, record_name, chans) ==
    IF e.sig # "ok" THEN [raised |-> TRUE, data |-> NoData]
    ELSE LET record == rdrecord(e, record_name, chans)
             ann    == LoadAnnotations(e, record.sig_len)
         IN  IF ann.raised THEN [raised |-> TRUE, data |-> NoData]
             ELSE [raised |-> FALSE,
                   data   |-> [record_name   |-> record_name,
                               signal        |-> record.p_signal,
                               fs            |-> record.fs,
                               sig_len       |-> record.sig_len,
                               duration      |-> <<record.sig_len, record.fs>>,
                               rhythm_labels |-> ann.rhythm_labels]]

NoEnv ==
    [sig |-> "raise", ann |-> "rdann_raises", sig_len |-> 0, fs |-> 0, n_sig |-> 0,
     annotation |-> [sample |-> <<>>, aux_note |-> <<>>]]

\* the annotations the records of the model carry: none, one rhythm for the
\* whole record, a change of rhythm in the middle, a late first boundary
Annotations(L) ==
    { [sample |-> <<>>, aux_note |-> <<>>],
      [sample |-> <<0>>, aux_note |-> <<AFIB>>],
      [sample |-> <<0, L \div 2>>, aux_note |-> <<NSR, AFIB>>],
      [sample |-> <<0, L - 1>>, aux_note |-> <<BEAT, AFL>>] }

----------------------------------------------------------------------------
(* The network, model.py: the shapes its layers produce and the errors they *)
(* raise.  A tensor is [err, shape]; err stands for the exception a layer   *)
(* raises, which aborts the forward pass.                                   *)

ErrT == [err |-> TRUE, shape |-> <<>>]
OkT(shape) == [err |-> FALSE, shape |-> shape]

\* the mutant: padding = kernel_size // 2 on both sides
SamePaddingSymmetric(k) == 2 * (k \div 2)

\* padding='same' with stride 1: kernel_size - 1 zeros in total, split left/right
SamePadding(k) == k - 1

\* nn.Conv1d(in_c, out_c, k, stride=st[, padding='same']) applied to t
Conv1d(t, in_c, out_c, k, st, same) ==
    IF t.err THEN t
    ELSE IF Len(t.shape) # 3 \/ t.shape[2] # in_c THEN ErrT
    ELSE LET padded == t.shape[3] + (IF same THEN SamePadding(k) ELSE 0)
         IN  IF padded < k THEN ErrT
             ELSE OkT(<<t.shape[1], out_c, ((padded - k) \div st) + 1>>)

\* nn.BatchNorm1d(c): in training mode it refuses a single value per channel
BatchNorm1d(t, c, train) ==
    IF t.err THEN t
    ELSE IF t.shape[2] # c THEN ErrT
    ELSE IF train /\ t.shape[1] * t.shape[3] = 1 THEN ErrT
    ELSE t

ReLU(t) == t

\* nn.AvgPool1d(kernel_size=k): stride k, no padding; an empty output is an error
AvgPool1d(t, k) ==
    IF t.err THEN t
    ELSE LET out == IF t.shape[3] < k THEN 0 ELSE ((t.shape[3] - k) \div k) + 1
         IN  IF out = 0 THEN ErrT ELSE OkT(<<t.shape[1], t.shape[2], out>>)

Max(a, b) == IF a >= b THEN a ELSE b

\* a + b with broadcasting: sizes must be equal or one of them 1
Add(a, b) ==
    IF a.err \/ b.err THEN ErrT
    ELSE IF Len(a.shape) # Len(b.shape) THEN ErrT
    ELSE IF \E d \in 1..Len(a.shape) :
                a.shape[d] # b.shape[d] /\ a.shape[d] # 1 /\ b.shape[d] # 1
         THEN ErrT
    ELSE OkT([d \in 1..Len(a.shape) |-> Max(a.shape[d], b.shape[d])])

\* nn.AdaptiveAvgPool1d(1)
AdaptiveAvgPool1d(t) ==
    IF t.err THEN t
    ELSE IF t.shape[3] = 0 THEN ErrT
    ELSE OkT(<<t.shape[1], t.shape[2], 1>>)

\* x.squeeze(-1): drops the last dimension when it is 1
SqueezeLast(t) ==
    IF t.err THEN t
    ELSE IF t.shape[Len(t.shape)] = 1 THEN OkT(SubSeq(t.shape, 1, Len(t.shape) - 1))
    ELSE t

\* nn.Linear(in_f, out_f)
Linear(t, in_f, out_f) ==
    IF t.err THEN t
    ELSE IF t.shape[Len(t.shape)] # in_f THEN ErrT
    ELSE OkT(SubSeq(t.shape, 1, Len(t.shape) - 1) \o <<out_f>>)

\* model.py:4-21
KanResInit(t, in_channels, filterno_1, filterno_2, filtersize_1, filtersize_2, st, train) ==
    LET c1 == ReLU(BatchNorm1d(Conv1d(t, in_channels, filterno_1, filtersize_1, st, FALSE),
                               filterno_1, train))
    IN  ReLU(BatchNorm1d(Conv1d(c1, filterno_1, filterno_2, filtersize_2, 1, FALSE),
                         filterno_2, train))

\* model.py:24-43
KanResModule(t, in_channels, filterno_1, filterno_2, filtersize_1, filtersize_2, st, train) ==
    LET identity == t
        c1  == ReLU(BatchNorm1d(Conv1d(t, in_channels, filterno_1, filtersize_1, st, TRUE),
                                filterno_1, train))
        out == ReLU(BatchNorm1d(Conv1d(c1, filterno_1, filterno_2, filtersize_2, 1, TRUE),
                                filterno_2, train))
    IN  Add(out, identity)

\* model.py:54: the number of residual blocks
NumResModules == 8

----------------------------------------------------------------------------
(* The record catalog, data_loader.py:15-19, and the dataset builder,       *)
(* dataset.py:37-108.                                                       *)

\* the code points of the characters of the record names of the model
Ord(c) ==
    CASE c = "-" -> 45
      [] c = "a" -> 97
      [] c = "b" -> 98
      [] c = "c" -> 99
      [] c = "d" -> 100

\* Python's order on strings
RECURSIVE StrLess(_, _)
StrLess(a, b) ==
    IF b = <<>> THEN FALSE
    ELSE IF a = <<>> THEN TRUE
    ELSE IF a[1] = b[1] THEN StrLess(Tail(a), Tail(b))
    ELSE Ord(a[1]) < Ord(b[1])

\* sorted(...) of a set of distinct strings
RECURSIVE sorted(_)
sorted(S) ==
    IF S = {} THEN <<>>
    ELSE LET least == CHOOSE m \in S : \A o \in S \ {m} : StrLess(m, o)
         IN  <<least>> \o sorted(S \ {least})

\* f.stem.endswith('-')
EndsWith(s, ch) == Len(s) >= 1 /\ s[Len(s)] = ch

\* data_loader.py:15-19
get_records(fs) ==
    sorted({st \in DOMAIN fs : "hea" \in fs[st] /\ ~EndsWith(st, "-")})

\* the mutant: records without a signal-data file stay in the list
UsableRecordsNoFilter(fs, recs) == recs

\* dataset.py:42-43
UsableRecords(fs, recs) == SelectSeq(recs, LAMBDA r : "dat" \in fs[r])

\* dataset.py:47 random_state
RandomSeed == 42

\* dataset.py:37 test_size = 0.2, in percent
TestSizePercent == 20

(* numpy's generator is modelled by a small linear congruential generator:  *)
(* a state in 0..15, RandomState(seed) starting at seed mod 16.  What the   *)
(* model keeps of it is that a permutation is a function of the generator   *)
(* state and of n alone.                                                    *)
RandomState(seed) == seed % 16

RngNext(s) == (5 * s + 3) % 16

Swap(p, i, j) == [p EXCEPT ![i] = p[j], ![j] = p[i]]

\* the Fisher-Yates shuffle of rng.permutation(n), from position i down
RECURSIVE Shuffle(_, _, _)
Shuffle(p, i, s) ==
    IF i <= 1 THEN p ELSE Shuffle(Swap(p, i, (s % i) + 1), i - 1, RngNext(s))

permutation(s, n) == Shuffle([i \in 1..n |-> i - 1], n, s)

\* the mutant: random_state=None, the split draws from numpy's global generator
SplitRandomStateGlobal(g) == g

\* dataset.py:47: random_state=42 seeds a generator of the call's own; the state
\* g of numpy's global generator is not read
SplitRandomState(g) == RandomState(RandomSeed)

\* dataset.py:46-48: sklearn's train_test_split(records, test_size, random_state):
\* n_test = ceil(test_size * n), n_train = n - n_test, an empty train set is a
\* ValueError; test takes the first n_test entries of the permutation.
\* ceil(0.2 * n) is computed in floating point; for the record counts of the
\* model (n <= 4) it equals ceil(20 * n / 100).
train_test_split(recs, g) ==
    LET n       == Len(recs)
        n_test  == (TestSizePercent * n + 99) \div 100
        n_train == n - n_test
        perm    == permutation(SplitRandomState(g), n)
    IN  IF n_train = 0 THEN [raised |-> TRUE, train |-> <<>>, test |-> <<>>]
        ELSE [raised |-> FALSE,
              train  |-> [i \in 1..n_train |-> recs[perm[n_test + i] + 1]],
              test   |-> [i \in 1..n_test |-> recs[perm[i] + 1]]]

\* a numpy array: its number of dimensions and its rows (its elements when 1-D)
EmptyArray == [ndim |-> 1, rows |-> <<>>]
Array1(elems) == [ndim |-> 1, rows |-> elems]

\* np.array(windows) of a list of equally long 1-D slices: (n, W), or (0,) when empty
ArrayOfRows(list) == IF list = <<>> THEN EmptyArray ELSE [ndim |-> 2, rows |-> list]

\* data['signal'].squeeze() of a (sig_len, 1) matrix: (sig_len,), or 0-d for one sample
Squeeze(m) ==
    IF Len(m) = 1 /\ Len(m[1]) = 1 THEN [ndim |-> 0, rows |-> m[1]]
    ELSE IF \A i \in 1..Len(m) : Len(m[i]) = 1
         THEN [ndim |-> 1, rows |-> [i \in 1..Len(m) |-> m[i][1]]]
    ELSE IF Len(m) = 1 THEN [ndim |-> 1, rows |-> m[1]]
    ELSE [ndim |-> 2, rows |-> m]

\* np.atleast_2d
atleast_2d(a) == IF a.ndim = 1 THEN [ndim |-> 2, rows |-> <<a.rows>>] ELSE a

RECURSIVE Flatten(_)
Flatten(ss) == IF ss = <<>> THEN <<>> ELSE Head(ss) \o Flatten(Tail(ss))

\* np.vstack: the arrays made 2-D must agree in their second dimension
vstack(arrs) ==
    LET two == [i \in 1..Len(arrs) |-> atleast_2d(arrs[i])]
    IN  IF \E i, j \in 1..Len(two) : Len(two[i].rows[1]) # Len(two[j].rows[1])
        THEN [raised |-> TRUE, arr |-> EmptyArray]
        ELSE [raised |-> FALSE,
              arr |-> [ndim |-> 2, rows |-> Flatten([i \in 1..Len(two) |-> two[i].rows])]]

\* np.concatenate of 1-D arrays
concatenate(arrs) == Array1(Flatten([i \in 1..Len(arrs) |-> arrs[i].rows]))

\* dataset.py:66
BinaryLabels(rhythm_labels) ==
    [i \in 1..Len(rhythm_labels) |->
        IF rhythm_labels[i] = "atrial_fibrillation" THEN 1 ELSE 0]

Msg(kind, record, detail) == [kind |-> kind, record |-> record, detail |-> detail]

\* dataset.py:62-63: `continue` prints nothing
NoLabelsOutput(record) == <<>>

\* dataset.py:56-76: the body of the loop for one record, e being what wfdb
\* finds for it.  outcome: "error" (an exception caught at line 75),
\* "no_labels" (line 63) or "ok" (arrays appended)
process_one(e, record, W, S) ==
    LET loaded == load_record(e, record, <<0>>)
    IN  IF loaded.raised
        THEN [outcome |-> "error", windows |-> EmptyArray, labels |-> EmptyArray,
              out |-> <<Msg("error", record, "load_record raised")>>]
        ELSE LET sig == Squeeze(loaded.data.signal)
                 rhythm_labels == loaded.data.rhythm_labels
             IN  IF ~rhythm_labels.present
                 THEN [outcome |-> "no_labels", windows |-> EmptyArray,
                       labels |-> EmptyArray, out |-> NoLabelsOutput(record)]
                 ELSE IF sig.ndim = 0
                 THEN \* len(signal) of a 0-d array raises TypeError
                      [outcome |-> "error", windows |-> EmptyArray, labels |-> EmptyArray,
                       out |-> <<Msg("error", record, "len() of unsized object")>>]
                 ELSE LET cw == create_windows(sig.rows, BinaryLabels(rhythm_labels.arr),
                                               W, S)
                      IN  [outcome |-> "ok",
                           windows |-> ArrayOfRows(cw.windows),
                           labels  |-> Array1(cw.window_labels),
                           out     |-> <<Msg("windows", record, "")>>]

\* dataset.py:78-80
process_result(windows_list, labels_list) ==
    IF windows_list # <<>>
    THEN LET stacked == vstack(windows_list)
         IN  [raised |-> stacked.raised, X |-> stacked.arr, y |-> concatenate(labels_list)]
    ELSE [raised |-> FALSE, X |-> EmptyArray, y |-> EmptyArray]

\* dataset.py:11-18: windows get a channel dimension; len() is the first dimension
NoDataset == [windows |-> <<>>, labels |-> <<>>]
AFDataset(X, y) ==
    [windows |-> [i \in 1..Len(X.rows) |-> <<X.rows[i]>>], labels |-> y.rows]
DatasetLen(ds) == Len(ds.windows)

----------------------------------------------------------------------------
(* The values the variables of the other components hold while one          *)
(* component runs on its own.                                               *)

NoWindows == [windows |-> <<>>, window_labels |-> <<>>]

WinIdle ==
    /\ window_size = 1
    /\ stride = 1
    /\ signal = <<>>
    /\ labels = <<>>
    /\ win_out = NoWindows

LabIdle ==
    /\ annotation = [sample |-> <<>>, aux_note |-> <<>>]
    /\ sig_len = 0
    /\ lab_out = <<>>
    /\ binary_labels = <<>>

LoadIdle ==
    /\ env = NoEnv
    /\ channels = <<>>
    /\ data = [raised |-> FALSE, data |-> NoData]

FwdIdle ==
    /\ x = ErrT
    /\ x_in = <<>>
    /\ training = TRUE
    /\ input_channels = 1
    /\ output_size = 4
    /\ res_log = <<>>

NoSplit == [ran |-> FALSE, valid |-> FALSE, train |-> <<>>, test |-> <<>>]

BuildFresh ==
    /\ records = <<>>
    /\ train_records = <<>>
    /\ test_records = <<>>
    /\ cur = 1
    /\ all_windows = <<>>
    /\ all_labels = <<>>
    /\ train_X = EmptyArray
    /\ train_y = EmptyArray
    /\ test_X = EmptyArray
    /\ test_y = EmptyArray
    /\ train_dataset = NoDataset
    /\ test_dataset = NoDataset
    /\ stdout = <<>>
    /\ history = <<>>

BuildIdle ==
    /\ files = <<>>
    /\ BuildFresh
    /\ prev_split = NoSplit

----------------------------------------------------------------------------
(* The windowing engine on its own: every signal/label pair up to MaxSigLen, *)
(* every window size and stride up to the bounds.                            *)

WinInit ==
    /\ pc = "win_call"
    /\ LabIdle
    /\ LoadIdle
    /\ FwdIdle
    /\ BuildIdle
    /\ window_size \in 1..MaxWindow
    /\ stride \in 1..MaxStride
    /\ \E L \in 0..MaxSigLen :
          /\ signal \in [1..L -> 0..1]
          /\ labels \in [1..L -> 0..1]
    /\ win_out = NoWindows

CallCreateWindows ==
    /\ pc = "win_call"
    /\ win_out' = create_windows(signal, labels, window_size, stride)
    /\ pc' = "win_done"
    /\ UNCHANGED <<window_size, stride, signal, labels, labVars, loadVars, fwdVars, buildVars>>

WinNext == CallCreateWindows

SpecWin == WinInit /\ [][WinNext]_vars

----------------------------------------------------------------------------
(* The expander on its own: every annotation of up to MaxEvents events with *)
(* non-decreasing sample indices inside a signal of up to MaxLabLen samples *)
(* (wfdb returns the events of a record ordered by sample), and the         *)
(* annotation of three boundaries on a signal of 300 samples; the label     *)
(* array is then encoded as process_records encodes it.                     *)

AuxNotes == {PyNone, <<>>, BEAT, AFIB, NSR, AFL, VT}

NonDecreasing(s) == \A i \in 1..(Len(s) - 1) : s[i] <= s[i + 1]

ExampleAnnotation == [sample |-> <<0, 100, 250>>, aux_note |-> <<NSR, AFIB, NSR>>]

LabInit ==
    /\ pc = "lab_call"
    /\ WinIdle
    /\ LoadIdle
    /\ FwdIdle
    /\ BuildIdle
    /\ lab_out = <<>>
    /\ binary_labels = <<>>
    /\ \/ /\ sig_len \in 0..MaxLabLen
          /\ \E k \in 0..MaxEvents :
                \E s \in [1..k -> 0..(sig_len - 1)], a \in [1..k -> AuxNotes] :
                    /\ NonDecreasing(s)
                    /\ annotation = [sample |-> s, aux_note |-> a]
       \/ /\ sig_len = 300
          /\ annotation = ExampleAnnotation

CallGetRhythmLabels ==
    /\ pc = "lab_call"
    /\ lab_out' = get_rhythm_labels(annotation, sig_len)
    /\ pc' = "lab_done"
    /\ UNCHANGED <<annotation, sig_len, binary_labels, winVars, loadVars, fwdVars, buildVars>>

\* dataset.py:65-66 on the label array the loader returned
EncodeBinary ==
    /\ pc = "lab_done"
    /\ binary_labels' = BinaryLabels(lab_out)
    /\ pc' = "lab_encoded"
    /\ UNCHANGED <<annotation, sig_len, lab_out, winVars, loadVars, fwdVars, buildVars>>

LabNext == CallGetRhythmLabels \/ EncodeBinary

SpecLab == LabInit /\ [][LabNext]_vars

----------------------------------------------------------------------------
(* The loader on its own: one call of load_record for every environment.    *)

\* the sampling frequency of the AFDB records
SamplingFrequencies == {250}

LoadEnvs ==
    { [sig |-> s, ann |-> a, sig_len |-> L, fs |-> f, n_sig |-> c,
       annotation |-> an] :
        f \in SamplingFrequencies, s \in {"ok", "raise"}, a \in {"ok", "rdann_raises", "expand_raises"},
        L \in 1..MaxRecLen, c \in 1..2, an \in UNION {Annotations(n) : n \in 1..MaxRecLen} }

RecordA == <<"a">>

LoadInit ==
    /\ pc = "load_call"
    /\ WinIdle
    /\ LabIdle
    /\ FwdIdle
    /\ BuildIdle
    /\ env \in {e \in LoadEnvs : e.annotation \in Annotations(e.sig_len)}
    /\ channels \in {<<>>, <<0>>}
    /\ data = [raised |-> FALSE, data |-> NoData]

CallLoadRecord ==
    /\ pc = "load_call"
    /\ data' = load_record(env, RecordA, channels)
    /\ pc' = IF data'.raised THEN "load_raised" ELSE "load_done"
    /\ UNCHANGED <<env, channels, winVars, labVars, fwdVars, buildVars>>

LoadNext == CallLoadRecord

SpecLoad == LoadInit /\ [][LoadNext]_vars

----------------------------------------------------------------------------
(* KanResWideX.forward, model.py:60-70, one action per stage, on every      *)
(* batch shape up to the bounds and on the (8, 1, 1000) batch of            *)
(* example_run.py, in training mode (the state of a new module) and in      *)
(* evaluation mode (after model.eval()).                                    *)

FwdInit ==
    /\ pc = "fwd_init_block"
    /\ WinIdle
    /\ LabIdle
    /\ LoadIdle
    /\ BuildIdle
    /\ training \in BOOLEAN
    /\ input_channels \in 1..MaxChannels
    /\ output_size \in {2, 4}
    /\ \E B \in (1..MaxBatch) \cup {8}, L \in (1..MaxSeqLen) \cup {1000} :
          /\ x_in = <<B, input_channels, L>>
          /\ x = OkT(x_in)
    /\ res_log = <<>>

\* model.py:61
FwdInitBlock ==
    /\ pc = "fwd_init_block"
    /\ x' = KanResInit(x, input_channels, 64, 32, 8, 3, 1, training)
    /\ pc' = IF x'.err THEN "fwd_raised" ELSE "fwd_pool"
    /\ UNCHANGED <<x_in, training, input_channels, output_size, res_log>>
    /\ UNCHANGED <<winVars, labVars, loadVars, buildVars>>

\* model.py:62
FwdPool ==
    /\ pc = "fwd_pool"
    /\ x' = AvgPool1d(x, 2)
    /\ pc' = IF x'.err THEN "fwd_raised" ELSE "fwd_res"
    /\ UNCHANGED <<x_in, training, input_channels, output_size, res_log>>
    /\ UNCHANGED <<winVars, labVars, loadVars, buildVars>>

\* model.py:64-65: one iteration of the loop over res_modules
FwdResModule ==
    /\ pc = "fwd_res"
    /\ Len(res_log) < NumResModules
    /\ x' = KanResModule(x, 32, 64, 32, 50, 50, 1, training)
    /\ res_log' = Append(res_log, [in |-> x.shape, out |-> x'])
    /\ pc' = IF x'.err THEN "fwd_raised"
             ELSE IF Len(res_log') = NumResModules THEN "fwd_head"
             ELSE "fwd_res"
    /\ UNCHANGED <<x_in, training, input_channels, output_size>>
    /\ UNCHANGED <<winVars, labVars, loadVars, buildVars>>

\* model.py:67-70
FwdHead ==
    /\ pc = "fwd_head"
    /\ x' = Linear(SqueezeLast(AdaptiveAvgPool1d(x)), 32, output_size)
    /\ pc' = IF x'.err THEN "fwd_raised" ELSE "fwd_done"
    /\ UNCHANGED <<x_in, training, input_channels, output_size, res_log>>
    /\ UNCHANGED <<winVars, labVars, loadVars, buildVars>>

FwdNext == FwdInitBlock \/ FwdPool \/ FwdResModule \/ FwdHead

SpecFwd == FwdInit /\ [][FwdNext]_vars

----------------------------------------------------------------------------
(* build_datasets, dataset.py:37-108, as a program: the catalog, the split, *)
(* the loop of process_records over the train and then the test records     *)
(* (one action per record), the stacking of each split, the datasets.       *)
(* What wfdb finds for a record is drawn when the record is loaded.  The    *)
(* program can be run again on the same directory (Rerun).                  *)

Stems == {<<"a">>, <<"b">>, <<"c">>, <<"d">>, <<"c", "-">>}

\* a record has no file, a header only, or a header and a signal file;
\* the placeholder entry has none or both
FileSets(st) ==
    IF EndsWith(st, "-") THEN {{}, {"hea", "dat"}}
    ELSE {{}, {"hea"}, {"hea", "dat"}}

Directories == {fs \in [Stems -> SUBSET {"hea", "dat"}] : \A st \in Stems : fs[st] \in FileSets(st)}

\* what wfdb can find for a record: an unreadable signal, an unreadable annotation,
\* or a signal of 1..MaxRecLen samples with one of two annotations
RecordEnvs ==
    { [sig |-> "raise", ann |-> "ok", sig_len |-> 1, fs |-> f, n_sig |-> 2,
       annotation |-> [sample |-> <<>>, aux_note |-> <<>>]] : f \in SamplingFrequencies }
    \cup
    { [sig |-> "ok", ann |-> "rdann_raises", sig_len |-> BuildWindow, fs |-> f, n_sig |-> 2,
       annotation |-> [sample |-> <<>>, aux_note |-> <<>>]] : f \in SamplingFrequencies }
    \cup
    { [sig |-> "ok", ann |-> "ok", sig_len |-> L, fs |-> f, n_sig |-> 2,
       annotation |-> an] :
        f \in SamplingFrequencies, L \in 1..MaxRecLen,
        an \in { [sample |-> <<0>>, aux_note |-> <<AFIB>>],
                 [sample |-> <<0, 1>>, aux_note |-> <<NSR, AFIB>>] } }

GlobalRngStates == 0..MaxGlobalRng

BuildInit ==
    /\ pc = "start"
    /\ LabIdle
    /\ LoadIdle
    /\ FwdIdle
    /\ signal = <<>>
    /\ labels = <<>>
    /\ win_out = NoWindows
    /\ window_size = BuildWindow
    /\ stride \in 1..2
    /\ files \in Directories
    /\ BuildFresh
    /\ prev_split = NoSplit

others == <<signal, labels, win_out, labVars, loadVars, fwdVars>>

\* dataset.py:39-43, data_loader.py:10-13
LoaderInit ==
    /\ pc = "start"
    /\ records' = UsableRecords(files, get_records(files))
    /\ stdout' = Append(stdout, Msg("found", <<>>, ""))
    /\ pc' = "split"
    /\ UNCHANGED <<window_size, stride, files, train_records, test_records, procVars,
                   outVars, history, prev_split, others>>

\* dataset.py:46-50; g is the state numpy's global generator happens to be in
Split ==
    /\ pc = "split"
    /\ \E g \in GlobalRngStates :
          LET sp == train_test_split(records, g)
          IN  /\ train_records' = sp.train
              /\ test_records' = sp.test
              /\ pc' = IF sp.raised THEN "raised" ELSE "train"
              /\ stdout' = IF sp.raised THEN stdout
                           ELSE stdout \o <<Msg("split", <<>>, ""), Msg("processing", <<>>, "train")>>
    /\ UNCHANGED <<window_size, stride, files, records, procVars, outVars, history,
                   prev_split, others>>

record_list == IF pc = "train" THEN train_records ELSE test_records

\* dataset.py:56-76: one iteration of the loop of process_records
ProcessRecord ==
    /\ pc \in {"train", "test"}
    /\ cur <= Len(record_list)
    /\ \E e \in RecordEnvs :
          LET r == process_one(e, record_list[cur], window_size, stride)
          IN  /\ all_windows' = IF r.outcome = "ok" THEN Append(all_windows, r.windows)
                                ELSE all_windows
              /\ all_labels' = IF r.outcome = "ok" THEN Append(all_labels, r.labels)
                               ELSE all_labels
              /\ stdout' = stdout \o r.out
              /\ history' = Append(history,
                                   [split |-> pc, record |-> record_list[cur], env |-> e])
    /\ cur' = cur + 1
    /\ UNCHANGED <<pc, window_size, stride, files, splitVars, outVars, prev_split, others>>

\* dataset.py:78-86: the end of process_records for the train records
FinishTrain ==
    /\ pc = "train"
    /\ cur > Len(train_records)
    /\ LET res == process_result(all_windows, all_labels)
       IN  /\ train_X' = res.X
           /\ train_y' = res.y
           /\ pc' = IF res.raised THEN "raised" ELSE "test"
           /\ stdout' = IF res.raised THEN stdout
                        ELSE Append(stdout, Msg("processing", <<>>, "test"))
    /\ cur' = 1
    /\ all_windows' = <<>>
    /\ all_labels' = <<>>
    /\ UNCHANGED <<window_size, stride, files, splitVars, test_X, test_y, train_dataset,
                   test_dataset, history, prev_split, others>>

\* dataset.py:78-80, 86: the end of process_records for the test records
FinishTest ==
    /\ pc = "test"
    /\ cur > Len(test_records)
    /\ LET res == process_result(all_windows, all_labels)
       IN  /\ test_X' = res.X
           /\ test_y' = res.y
           /\ pc' = IF res.raised THEN "raised" ELSE "datasets"
    /\ cur' = 1
    /\ all_windows' = <<>>
    /\ all_labels' = <<>>
    /\ UNCHANGED <<window_size, stride, files, splitVars, train_X, train_y, train_dataset,
                   test_dataset, stdout, history, prev_split, others>>

\* dataset.py:88-94, 108.  The optional pickle of lines 97-106 writes a file
\* under save_path and changes none of the variables.
CreateDatasets ==
    /\ pc = "datasets"
    /\ train_dataset' = AFDataset(train_X, train_y)
    /\ test_dataset' = AFDataset(test_X, test_y)
    /\ stdout' = Append(stdout, Msg("stats", <<>>, ""))
    /\ pc' = "done"
    /\ UNCHANGED <<window_size, stride, files, splitVars, procVars, train_X, train_y,
                   test_X, test_y, history, prev_split, others>>

\* dataset.py:111-116: the program is run a second time on the same directory
Rerun ==
    /\ pc \in {"done", "raised"}
    /\ ~prev_split.ran
    /\ prev_split' = [ran |-> TRUE, valid |-> Len(test_records) > 0,
                      train |-> train_records, test |-> test_records]
    /\ pc' = "start"
    /\ records' = <<>>
    /\ train_records' = <<>>
    /\ test_records' = <<>>
    /\ cur' = 1
    /\ all_windows' = <<>>
    /\ all_labels' = <<>>
    /\ train_X' = EmptyArray
    /\ train_y' = EmptyArray
    /\ test_X' = EmptyArray
    /\ test_y' = EmptyArray
    /\ train_dataset' = NoDataset
    /\ test_dataset' = NoDataset
    /\ stdout' = <<>>
    /\ history' = <<>>
    /\ UNCHANGED <<window_size, stride, files, others>>

Next ==
    \/ LoaderInit
    \/ Split
    \/ ProcessRecord
    \/ FinishTrain
    \/ FinishTest
    \/ CreateDatasets
    \/ Rerun

Spec == BuildInit /\ [][Next]_vars

----------------------------------------------------------------------------
(* C1: create_windows returns floor((L-W)/S)+1 windows when L >= W and none *)
(* when L < W; the k-th window (k from 0) is signal[k*S, k*S+W), so it lies *)
(* inside the signal and has exactly W samples.                             *)
C1_WindowCount ==
    pc = "win_done" =>
        LET L == Len(signal)
            W == window_size
            S == stride
            n == Len(win_out.windows)
        IN  /\ n = (IF L >= W THEN ((L - W) \div S) + 1 ELSE 0)
            /\ \A k \in 0..(n - 1) :
                  /\ k * S + W <= L
                  /\ Len(win_out.windows[k + 1]) = W
                  /\ \A i \in 0..(W - 1) :
                        win_out.windows[k + 1][i + 1] = signal[k * S + i + 1]

\* C1 witness: a call that returned at least two windows with a remainder left
C1_Witness ==
    /\ pc = "win_done"
    /\ Len(win_out.windows) >= 2
    /\ (Len(signal) - window_size) % stride # 0

\* C1 witness of the empty case is part of the same run: L < W gives no window
C1_WitnessShort ==
    /\ pc = "win_done"
    /\ Len(signal) < window_size
    /\ Len(win_out.windows) = 0

(* C2: the label of the window starting at s is 1 exactly when twice the    *)
(* number of 1-labels in [s, s+W) is at least W (a tie gives 1), else 0.    *)
C2_MajorityVote ==
    pc = "win_done" =>
        /\ Len(win_out.window_labels) = Len(win_out.windows)
        /\ \A k \in 1..Len(win_out.window_labels) :
              LET s    == (k - 1) * stride
                  ones == Cardinality({i \in (s + 1)..(s + window_size) :
                                          labels[i] = 1})
              IN  win_out.window_labels[k] =
                     (IF 2 * ones >= window_size THEN 1 ELSE 0)

\* C2 witness: a window with an exact tie, labelled 1
C2_Witness ==
    /\ pc = "win_done"
    /\ \E k \in 1..Len(win_out.window_labels) :
          /\ 2 * Sum(Slice(labels, (k - 1) * stride,
                           (k - 1) * stride + window_size)) = window_size
          /\ win_out.window_labels[k] = 1

----------------------------------------------------------------------------
\* the boundary events of the annotation, told by their first character
IsBoundary(aux) == aux # PyNone /\ Len(aux) > 0 /\ Head(aux) = "("

AllBoundaries == \A i \in 1..Len(annotation.aux_note) : IsBoundary(annotation.aux_note[i])

\* the name the code table gives a boundary string
BoundaryName(aux) ==
    IF aux = <<"(", "A", "F", "I", "B">> THEN "atrial_fibrillation"
    ELSE IF aux = <<"(", "N">> THEN "normal"
    ELSE IF aux = <<"(", "A", "F", "L">> THEN "atrial_flutter"
    ELSE "other"

(* C3: given boundary events with non-decreasing samples in [0, L), the     *)
(* result has length L and every sample carries the name of the last        *)
(* boundary at or before it, 'unknown' when there is none; on the example   *)
(* [0,100)=normal, [100,250)=atrial_fibrillation, [250,300)=normal.         *)
C3_LastBoundaryLabel ==
    (pc = "lab_done" /\ AllBoundaries) =>
        /\ Len(lab_out) = sig_len
        /\ \A pos \in 0..(sig_len - 1) :
              LET before == {i \in 1..Len(annotation.sample) : annotation.sample[i] <= pos}
              IN  IF before = {} THEN lab_out[pos + 1] = "unknown"
                  ELSE LET last == CHOOSE i \in before : \A j \in before : j <= i
                       IN  lab_out[pos + 1] = BoundaryName(annotation.aux_note[last])
        /\ (annotation = ExampleAnnotation /\ sig_len = 300) =>
              \A pos \in 0..299 :
                  lab_out[pos + 1] = (IF pos < 100 THEN "normal"
                                    ELSE IF pos < 250 THEN "atrial_fibrillation"
                                    ELSE "normal")

\* C3 witness: boundaries only, the first after sample 0, two at one sample,
\* and a last segment that runs to the end of the signal
C3_Witness ==
    /\ pc = "lab_done"
    /\ AllBoundaries
    /\ Len(annotation.sample) = 3
    /\ annotation.sample[1] > 0
    /\ annotation.sample[2] = annotation.sample[3]
    /\ annotation.sample[3] < sig_len - 1
    /\ annotation.aux_note[2] # annotation.aux_note[3]

\* C3 on the example of 300 samples
C3_WitnessExample ==
    /\ pc = "lab_done"
    /\ sig_len = 300
    /\ lab_out[100] = "normal"
    /\ lab_out[101] = "atrial_fibrillation"

\* C3 with no boundary event at all
C3_WitnessEmpty ==
    /\ pc = "lab_done"
    /\ Len(annotation.sample) = 0
    /\ sig_len > 0
    /\ \A j \in 1..sig_len : lab_out[j] = "unknown"

\* the sequence without its i-th element
RemoveAt(s, i) == [j \in 1..(Len(s) - 1) |-> IF j < i THEN s[j] ELSE s[j + 1]]

\* the sequence with v placed before its p-th element (p = Len(s) + 1: at the end)
InsertAt(s, p, v) ==
    [j \in 1..(Len(s) + 1) |-> IF j < p THEN s[j] ELSE IF j = p THEN v ELSE s[j - 1]]

WithoutEvent(ann, i) ==
    [sample |-> RemoveAt(ann.sample, i), aux_note |-> RemoveAt(ann.aux_note, i)]

WithEvent(ann, p, smp, aux) ==
    [sample |-> InsertAt(ann.sample, p, smp), aux_note |-> InsertAt(ann.aux_note, p, aux)]

\* the events that are not boundaries: no string, the empty string, a beat marker
OtherAuxNotes == {a \in AuxNotes : ~IsBoundary(a)}

RhythmNames == {"atrial_fibrillation", "normal", "atrial_flutter", "other", "unknown"}

(* C11: only the events whose auxiliary string is present, non-empty and    *)
(* begins with '(' affect the label array: removing any other event, or     *)
(* adding one anywhere, leaves the array unchanged.  Every sample carries   *)
(* the name of the last such boundary at or before it: atrial_fibrillation, *)
(* normal, atrial_flutter exactly for '(AFIB', '(N', '(AFL', and other for  *)
(* every other boundary string.  The encoding of process_records is 1       *)
(* exactly on the samples labelled atrial_fibrillation and 0 on the rest.   *)
C11_OnlyBoundariesCount ==
    /\ pc \in {"lab_done", "lab_encoded"} =>
          /\ \A i \in 1..Len(annotation.aux_note) :
                ~IsBoundary(annotation.aux_note[i]) =>
                    get_rhythm_labels(WithoutEvent(annotation, i), sig_len) = lab_out
          /\ \A p \in 1..(Len(annotation.aux_note) + 1), smp \in 0..(sig_len - 1),
                aux \in OtherAuxNotes :
                    get_rhythm_labels(WithEvent(annotation, p, smp, aux), sig_len) = lab_out
          /\ Len(lab_out) = sig_len
          /\ \A pos \in 0..(sig_len - 1) :
                LET before == {i \in 1..Len(annotation.sample) :
                                  /\ IsBoundary(annotation.aux_note[i])
                                  /\ annotation.sample[i] <= pos}
                IN  IF before = {} THEN lab_out[pos + 1] = "unknown"
                    ELSE LET last == CHOOSE i \in before : \A j \in before : j <= i
                         IN  /\ lab_out[pos + 1] = BoundaryName(annotation.aux_note[last])
                             /\ lab_out[pos + 1] = "atrial_fibrillation"
                                    <=> annotation.aux_note[last] = <<"(", "A", "F", "I", "B">>
                             /\ lab_out[pos + 1] = "normal"
                                    <=> annotation.aux_note[last] = <<"(", "N">>
                             /\ lab_out[pos + 1] = "atrial_flutter"
                                    <=> annotation.aux_note[last] = <<"(", "A", "F", "L">>
    /\ pc = "lab_encoded" =>
          /\ Len(binary_labels) = sig_len
          /\ \A j \in 1..sig_len :
                /\ lab_out[j] \in RhythmNames
                /\ binary_labels[j] \in {0, 1}
                /\ binary_labels[j] = 1 <=> lab_out[j] = "atrial_fibrillation"

\* C11 witness: a beat marker between two boundaries, one of them unmapped,
\* and an encoded array with both a 1 and a 0 of the label other
C11_Witness ==
    /\ pc = "lab_encoded"
    /\ Len(annotation.sample) = 3
    /\ annotation.aux_note[1] = <<"(", "A", "F", "I", "B">>
    /\ annotation.aux_note[2] = <<"N">>
    /\ annotation.aux_note[3] = <<"(", "V", "T">>
    /\ annotation.sample = <<0, 1, 2>>
    /\ sig_len = 3
    /\ lab_out = <<"atrial_fibrillation", "atrial_fibrillation", "other">>
    /\ binary_labels = <<1, 1, 0>>

\* C11 with an event that has no auxiliary string and one whose string is empty
\* before the only boundary: the samples before the boundary stay unknown, 0
C11_WitnessNoString ==
    /\ pc = "lab_encoded"
    /\ annotation.aux_note = <<PyNone, <<>>, <<"(", "A", "F", "L">>>>
    /\ annotation.sample = <<0, 1, 2>>
    /\ sig_len = 3
    /\ lab_out = <<"unknown", "unknown", "atrial_flutter">>
    /\ binary_labels = <<0, 0, 0>>
----------------------------------------------------------------------------
(* C6: when the signal is read, load_record returns the signal, the         *)
(* sampling frequency and the signal length, with rhythm_labels None        *)
(* whenever reading or expanding the annotation fails, and never raises for *)
(* that; a failure reading the signal itself propagates.                    *)
C6_AnnotationFailureIsAbsentLabels ==
    pc \in {"load_done", "load_raised"} =>
        /\ env.sig = "raise" => pc = "load_raised"
        /\ env.sig = "ok" =>
              /\ pc = "load_done"
              /\ data.data.sig_len = env.sig_len
              /\ data.data.fs = env.fs
              /\ Len(data.data.signal) = env.sig_len
              /\ \A i \in 1..env.sig_len :
                    data.data.signal[i][1] =
                       <<RecordA, (IF channels = <<>> THEN 0 ELSE channels[1]), i - 1>>
              /\ data.data.rhythm_labels.present <=> env.ann = "ok"
              /\ env.ann = "ok" => Len(data.data.rhythm_labels.arr) = env.sig_len

\* C6 witness: the signal is read, the annotation is not, the call returns
C6_Witness ==
    /\ pc = "load_done"
    /\ env.ann = "expand_raises"
    /\ ~data.data.rhythm_labels.present
    /\ Len(data.data.signal) = env.sig_len

\* C6: a missing annotation file
C6_WitnessMissing ==
    /\ pc = "load_done"
    /\ env.ann = "rdann_raises"
    /\ ~data.data.rhythm_labels.present

\* C6: the signal cannot be read
C6_WitnessSignal ==
    /\ pc = "load_raised"
    /\ env.sig = "raise"

----------------------------------------------------------------------------
\* the shortest input the stem and the pooling turn into a non-empty sequence:
\* L - 7 after the first convolution, L - 9 after the second, halved by the pool
LongEnough == x_in[3] - 9 >= 2

\* the length of the sequence the residual stack works on
PooledLen == (x_in[3] - 9) \div 2

\* a training-mode batch that leaves one value per channel in the residual stack
OneValuePerChannel == training /\ x_in[1] = 1 /\ PooledLen = 1

\* C10 as stated: every batch with L long enough is mapped to (B, output_size)
C10_Original ==
    pc \in {"fwd_done", "fwd_raised"} =>
        (LongEnough => (pc = "fwd_done" /\ x.shape = <<x_in[1], output_size>>))

(* C10, amended: in evaluation mode, and in training mode unless the batch  *)
(* leaves a single value per channel (B = 1 and pooled length 1), forward   *)
(* maps (B, input_channels, L) with L long enough to exactly                *)
(* (B, output_size); every residual block that returns has 32 channels and  *)
(* the sequence length of its input; a too-short L is an error.             *)
C10_ForwardShape ==
    /\ \A k \in 1..Len(res_log) :
          ~res_log[k].out.err =>
              /\ res_log[k].in[2] = 32
              /\ res_log[k].out.shape = res_log[k].in
    /\ (LongEnough /\ ~OneValuePerChannel) => pc # "fwd_raised"
    /\ pc = "fwd_done" =>
          /\ x.shape = <<x_in[1], output_size>>
          /\ Len(res_log) = 8
          /\ LongEnough
    /\ (~LongEnough \/ OneValuePerChannel) => pc # "fwd_done"

\* C10 witness: the batch of example_run.py, (8, 1, 1000) -> (8, 4)
C10_Witness ==
    /\ pc = "fwd_done"
    /\ x_in = <<8, 1, 1000>>
    /\ output_size = 4
    /\ x.shape = <<8, 4>>
    /\ Len(res_log) = 8

\* C10: the shortest input is accepted in evaluation mode
C10_WitnessShortest ==
    /\ pc = "fwd_done"
    /\ x_in[3] = 11
    /\ ~training

\* C10: a too-short input raises
C10_WitnessTooShort ==
    /\ pc = "fwd_raised"
    /\ x_in[3] = 10

----------------------------------------------------------------------------
(* What the claims about build_datasets read off a run *)

HistOf(split) == SelectSeq(history, LAMBDA h : h.split = split)

\* a record whose load fails, and a record whose label array is absent
LoadFails(e) == e.sig = "raise"
LabelsAbsent(e) == e.sig = "ok" /\ e.ann # "ok"
Skipped(e) == LoadFails(e) \/ LabelsAbsent(e)

\* the number of windows a record owes its split
ExpectedCount(e) ==
    IF Skipped(e) \/ e.sig_len < window_size THEN 0
    ELSE ((e.sig_len - window_size) \div stride) + 1

\* the windows a record owes its split, as items of the dataset
ExpectedItems(h) ==
    [k \in 1..ExpectedCount(h.env) |->
        <<[i \in 1..window_size |-> <<h.record, 0, (k - 1) * stride + i - 1>>]>>]

ExpectedOf(split) ==
    Flatten([i \in 1..Len(HistOf(split)) |-> ExpectedItems(HistOf(split)[i])])

SplitMade == Len(test_records) > 0

SeqRange(s) == {s[i] : i \in 1..Len(s)}

\* C4 as stated: once a record was skipped for a failed load or an absent label
\* array, the build still finishes without raising and each split holds all the
\* windows of its other records
C4_Original ==
    (pc \in {"done", "raised"} /\ \E i \in 1..Len(history) : Skipped(history[i].env)) =>
        /\ pc = "done"
        /\ SelectSeq(train_dataset.windows, LAMBDA w : w[1] # <<>>) = ExpectedOf("train")
        /\ SelectSeq(test_dataset.windows, LAMBDA w : w[1] # <<>>) = ExpectedOf("test")

\* C5 as stated: every record skipped for a failed load or an absent label array
\* has its diagnostic message printed by the time the next record is processed
C5_Original ==
    \A i \in 1..Len(history) :
        Skipped(history[i].env) =>
            \E m \in 1..Len(stdout) :
                stdout[m].kind = "error" /\ stdout[m].record = history[i].record

\* C9 as stated: a split none of whose records yields a window is handed to the
\* caller as a dataset of length 0
C9_Original ==
    pc = "done" =>
        /\ (\A i \in 1..Len(HistOf("train")) : ExpectedCount(HistOf("train")[i].env) = 0)
              => DatasetLen(train_dataset) = 0
        /\ (\A i \in 1..Len(HistOf("test")) : ExpectedCount(HistOf("test")[i].env) = 0)
              => DatasetLen(test_dataset) = 0

\* every sample of every row comes from one of the records recs
RowsFrom(rows, recs) ==
    \A i \in 1..Len(rows) : \A j \in 1..Len(rows[i]) : rows[i][j][1] \in SeqRange(recs)

(* C7: once the split is made, the train and test lists are disjoint and    *)
(* without repetition, together they are exactly the records with a header, *)
(* a name not ending in '-' and a .dat file, and every window held for a    *)
(* split comes from a record of that split's list.                          *)
C7_RecordLevelSplit ==
    SplitMade =>
        /\ SeqRange(train_records) \cap SeqRange(test_records) = {}
        /\ Cardinality(SeqRange(train_records)) = Len(train_records)
        /\ Cardinality(SeqRange(test_records)) = Len(test_records)
        /\ SeqRange(train_records) \cup SeqRange(test_records) =
              {st \in Stems : files[st] = {"hea", "dat"} /\ st[Len(st)] # "-"}
        /\ \A a \in 1..Len(all_windows) :
              RowsFrom(all_windows[a].rows,
                       IF pc = "train" THEN train_records ELSE test_records)
        /\ RowsFrom(train_X.rows, train_records)
        /\ RowsFrom(test_X.rows, test_records)
        /\ \A i \in 1..Len(train_dataset.windows) :
              RowsFrom(train_dataset.windows[i], train_records)
        /\ \A i \in 1..Len(test_dataset.windows) :
              RowsFrom(test_dataset.windows[i], test_records)

\* C7 witness: a finished build with windows in both splits, from a directory
\* holding a header without signal file and a placeholder entry with both files
C7_Witness ==
    /\ pc = "done"
    /\ \E i \in 1..Len(train_dataset.windows) : train_dataset.windows[i][1] # <<>>
    /\ \E i \in 1..Len(test_dataset.windows) : test_dataset.windows[i][1] # <<>>
    /\ \E st \in Stems : files[st] = {"hea"}
    /\ files[<<"c", "-">>] = {"hea", "dat"}

(* C8: a second run of the program on the same record list makes the split  *)
(* of the first run: the same train list and the same test list, whatever   *)
(* the state of the global generator and whatever the loads of either run   *)
(* returned; and it makes no split when the first run could make none.      *)
C8_SplitReproducible ==
    /\ (prev_split.valid /\ SplitMade) =>
          /\ train_records = prev_split.train
          /\ test_records = prev_split.test
    /\ (prev_split.ran /\ ~prev_split.valid) => ~SplitMade

\* C8 witness: a second run that finished, with records loaded on its way
C8_Witness ==
    /\ pc = "done"
    /\ prev_split.valid
    /\ Len(train_records) >= 2
    /\ \E i \in 1..Len(history) : Skipped(history[i].env)
    /\ train_records = prev_split.train


\* C12 as stated: the build does not abort on a record too short for a window,
\* and in each split the windows are those its records owe it, record by record
\* in the order of the split's list and by increasing start within a record,
\* with as many labels as windows
C12_Original ==
    /\ SplitMade => pc # "raised"
    /\ pc = "done" =>
          /\ train_dataset.windows = ExpectedOf("train")
          /\ Len(train_dataset.labels) = Len(train_dataset.windows)
          /\ test_dataset.windows = ExpectedOf("test")
          /\ Len(test_dataset.labels) = Len(test_dataset.windows)

====
